---- MODULE Spec2Model ----
(***************************************************************************)
(* Model of src/query_llms.py: the response parsers (extract_answer,       *)
(* extract_evaluation), the task unit (process_combination) and the        *)
(* scheduler (main): ledger load, pending-set computation, units bounded   *)
(* by the semaphore, the completion loop with its periodic flush, the run  *)
(* summary and the final flush; and the process being stopped from outside *)
(* and started again.                                                      *)
(*                                                                         *)
(* Texts are sequences of tokens.  A token is a newline, a blank, the      *)
(* literal "category:" or "answer:" (in any letter case), a brace, a full  *)
(* stop, or an alphabetic word that is kept whole.  A line of the ledger   *)
(* is the sequence of the JSON values of one record.                       *)
(***************************************************************************)
EXTENDS Integers, Sequences, FiniteSets

\* ------------------------------------------------------------------ bounds
\* The code runs with CONCURRENCY_LIMIT = 8 and flushes every 50 completions;
\* both are scaled down so that a run of a handful of units exercises them.
CONCURRENCY_LIMIT == 2
BATCH == 2
MaxRuns == 2
MaxTextLen == 5

\* ------------------------------------------------------------------ parser
NL == "\n"
SP == " "
KW == "category:"

CATEGORIES == [CORRECT |-> "check", INCORRECT |-> "cross", DOUBT |-> "white", ERROR |-> "question"]

Words == {"CORRECT", "INCORRECT", "DOUBT", "ERROR", "maybe"}

Tokens == {NL, SP, KW, "{", "}", ".", "CORRECT", "INCORRECT", "ERROR", "maybe"}

RECURSIVE LStrip(_, _)
LStrip(s, ws) == IF s # <<>> /\ Head(s) \in ws THEN LStrip(Tail(s), ws) ELSE s

RECURSIVE RStrip(_, _)
RStrip(s, ws) ==
    IF s # <<>> /\ s[Len(s)] \in ws THEN RStrip(SubSeq(s, 1, Len(s) - 1), ws) ELSE s

\* str.strip(): leading and trailing whitespace (blanks and newlines) removed
strip(s) == RStrip(LStrip(s, {SP, NL}), {SP, NL})

\* str.split("\n"): the pieces between newlines, at least one piece
RECURSIVE SplitFrom(_, _)
SplitFrom(s, cur) ==
    IF s = <<>> THEN <<cur>>
    ELSE IF Head(s) = NL THEN <<cur>> \o SplitFrom(Tail(s), <<>>)
    ELSE SplitFrom(Tail(s), Append(cur, Head(s)))

split(s) == SplitFrom(s, <<>>)

RECURSIVE reversed(_)
reversed(s) == IF s = <<>> THEN <<>> ELSE Append(reversed(Tail(s)), Head(s))

\* [a-zA-Z]+ from position i of the line: the longest run of letters.  Adjacent
\* words run together; the letters of a following "category:" join the run,
\* which its colon ends.
RECURSIVE LetterRun(_, _)
LetterRun(line, i) ==
    IF i > Len(line) THEN ""
    ELSE IF line[i] \in Words THEN line[i] \o LetterRun(line, i + 1)
    ELSE IF line[i] = KW THEN "category"
    ELSE ""

RECURSIVE SkipBlanks(_, _)
SkipBlanks(line, i) ==
    IF i <= Len(line) /\ line[i] = SP THEN SkipBlanks(line, i + 1) ELSE i

\* \s*\{?([a-zA-Z]+) right after the keyword at position k: where the captured
\* group starts, or 0 when the rest of the pattern does not match there
GroupStart(line, k) ==
    LET j == SkipBlanks(line, k + 1)
        g == IF j <= Len(line) /\ line[j] = "{" THEN j + 1 ELSE j
    IN  IF LetterRun(line, g) # "" THEN g ELSE 0

\* re.search(r".*category:\s*\{?([a-zA-Z]+)\}?\.?", line, re.IGNORECASE):
\* the greedy .* settles on the last keyword after which the pattern matches
MatchPositions(line) == {k \in 1..Len(line) : line[k] = KW /\ GroupStart(line, k) # 0}

Max(S) == CHOOSE m \in S : \A n \in S : n <= m

category_match(line) ==
    IF MatchPositions(line) = {} THEN [matched |-> FALSE, group |-> ""]
    ELSE [matched |-> TRUE,
          group |-> LetterRun(line, GroupStart(line, Max(MatchPositions(line))))]

\* the body of the for loop of extract_evaluation: every matching line
\* overwrites evaluation, the loop has no break
RECURSIVE ScanEvaluation(_, _)
ScanEvaluation(lines, evaluation) ==
    IF lines = <<>> THEN evaluation
    ELSE LET m == category_match(strip(Head(lines)))
         IN  ScanEvaluation(Tail(lines), IF m.matched THEN m.group ELSE evaluation)

Raise == [raised |-> TRUE, value |-> "ValueError"]
Return(v) == [raised |-> FALSE, value |-> v]

\* variant: the membership test of line 85 left out
check_unchecked(evaluation) == Return(evaluation)

check_category(evaluation) ==
    IF evaluation \notin DOMAIN CATEGORIES THEN Raise ELSE Return(evaluation)

extract_evaluation(text) ==
    check_category(ScanEvaluation(reversed(split(strip(text))), ""))

\* ------------------------------------------------------------------ answer parser
KWA == "answer:"

\* what an answering model's text is made of
AnswerTokens == {NL, SP, KWA, "{", "}", "maybe", "CORRECT"}

\* re.search(r".*answer:\s*\{?(.*)?\}?", line, re.IGNORECASE): the greedy .*
\* settles on the last keyword of the line; blanks and one opening brace are
\* skipped, and the greedy group takes all the rest of the line, a closing brace
\* included, before \}? gets to see it
answer_match(line) ==
    IF \A k \in 1..Len(line) : line[k] # KWA THEN [matched |-> FALSE, group |-> <<>>]
    ELSE LET k == Max({n \in 1..Len(line) : line[n] = KWA})
             j == SkipBlanks(line, k + 1)
             g == IF j <= Len(line) /\ line[j] = "{" THEN j + 1 ELSE j
         IN  [matched |-> TRUE, group |-> SubSeq(line, g, Len(line))]

\* variant: the fallback trims the response
FallbackTrimmed(text) == strip(text)

\* line 70: the fallback returns the response as it came
Fallback(text) == text

\* the for loop of extract_answer: the first matching line from the end returns
\* its group, stripped
RECURSIVE ScanAnswer(_, _)
ScanAnswer(lines, text) ==
    IF lines = <<>> THEN Fallback(text)
    ELSE LET m == answer_match(strip(Head(lines)))
         IN  IF m.matched THEN strip(m.group) ELSE ScanAnswer(Tail(lines), text)

extract_answer(text) == ScanAnswer(reversed(split(strip(text))), text)

\* ------------------------------------------------------------------ data
\* the question texts (unique) and the model names of the input files
Questions == {"q1", "q2"}
Models == {"m1"}
SystemTypes == {"base", "suggest_empty"}

\* it.product(questions, system.items(), models)
Combos == [question : Questions, system_type : SystemTypes, model : Models]

\* variant: the key does not tell the two prompt variants apart
ComboKeyNoVariant(c) == <<c.question, c.model, FALSE>>

\* the ledger key of a combination and of a persisted record
ComboKey(c) == <<c.question, c.model, c.system_type = "suggest_empty">>
RecordKey(r) == <<r.question, r.model, r.suggest_empty>>

\* the result dictionary of process_combination: the fields of the key and the
\* verdict (the ledger is never read for the other fields)
ResultDict(c, evaluation) ==
    [question |-> c.question, model |-> c.model,
     suggest_empty |-> (c.system_type = "suggest_empty"), evaluation |-> evaluation]

None == <<>>
Some(r) == <<r>>

\* variant: the flag is always written as false
dumps_flat(r) == <<r.question, r.model, "false", r.evaluation>>

\* json.dumps(result) + "\n": one line of the file, the values in JSON text
dumps(r) == <<r.question, r.model, IF r.suggest_empty THEN "true" ELSE "false", r.evaluation>>

\* a line that holds a whole JSON object
IsJson(line) == Len(line) = Len(dumps(ResultDict(CHOOSE c \in Combos : TRUE, "")))

\* json.loads(line) of a whole line
loads(line) ==
    [question |-> line[1], model |-> line[2], suggest_empty |-> (line[3] = "true"),
     evaluation |-> line[4]]

\* what a line is when only its beginning reached the file
Torn(line) == {SubSeq(line, 1, k) : k \in 1..(Len(line) - 1)}

\* what the judge can answer: a verdict after a line of reasoning, the ERROR
\* verdict, a word outside the enumeration, no category line at all
JudgeTexts ==
    { <<"maybe", NL, KW, SP, "CORRECT", ".">>,
      <<KW, SP, "ERROR">>,
      <<KW, SP, "{", "maybe", "}">>,
      <<"INCORRECT", ".">> }

\* what the answering model can say: an answer line in braces after a line of
\* reasoning, or no answer line at all
AnswerTexts ==
    { <<"maybe", NL, KWA, SP, "{", "CORRECT", "}">>,
      <<SP, "maybe", NL>> }

Texts == UNION {[1..k -> Tokens] : k \in 0..MaxTextLen}

AnswerInputs == UNION {[1..k -> AnswerTokens] : k \in 0..MaxTextLen}

\* lines 167-170: the key of every line of the file
Keys(file) == {RecordKey(loads(file[i])) : i \in 1..Len(file)}

\* json.loads raises on a line that is not a whole JSON object
LoadRaises(file) == \E i \in 1..Len(file) : ~IsJson(file[i])

VARIABLES
    ledger,              \* OUTPUT: the lines of the file, in order
    file_exists,         \* OUTPUT.is_file()
    fbuf,                \* lines written to the open file object, not yet in the file
    run,                 \* how many times main() was started
    mainpc,              \* where main() is: init, await, flush, final, exit, raised, killed
    existing_results,    \* the keys loaded at startup
    tasks,               \* the combinations scheduled in this run
    pc,                  \* where each unit is: idle, wait, answer, judge, done, consumed
    model_response,      \* the answering model's response, while the unit runs
    received_answer,     \* the answer the judging call carries, while the unit runs
    received_evaluation, \* the judge's response to each unit, once it has one
    result,              \* what each finished unit returned
    sem,                 \* SEMAPHORE's free slots
    doneq,               \* finished units that as_completed has not yet yielded
    successful_results,  \* the in-memory buffer
    completed_count,
    fi,                  \* position of the final flush in successful_results
    appends,             \* how often this run opened OUTPUT for appending
    summary,             \* the numbers of the "Completed X out of Y tasks" line
    response,            \* parser check: the text given to the parser
    parsed               \* parser check: what the parser made of it

schedvars == <<ledger, file_exists, fbuf, run, mainpc, existing_results, tasks, pc,
               model_response, received_answer, received_evaluation, result, sem,
               doneq, successful_results, completed_count, fi, appends, summary>>
parsevars == <<response, parsed>>
vars == <<schedvars, parsevars>>

\* ------------------------------------------------------------------ units
\* variant: a unit enters while the counter is not negative
CanAcquireOffByOne(value) == value >= 0

\* async with SEMAPHORE: a unit enters when a slot is free
CanAcquire(value) == value > 0

Acquire(value) == value - 1

\* variant: the slot is never given back
ReleaseNothing(value) == value

\* leaving the async with block, on return and on exception alike
Release(value) == value + 1

\* variant: the judge is given the response as it came
RawAnswer(text) == text

\* line 102: what goes into the judge's prompt as received_answer
ExtractedAnswer(text) == extract_answer(text)

\* lines 97-102: each response the answering model can give, with the answer
\* taken from it
AnswerCalls == {<<text, ExtractedAnswer(text)>> : text \in AnswerTexts}

\* lines 104-113: each response the judge can give, with what extract_evaluation
\* makes of it
JudgeCalls == {<<text, extract_evaluation(text)>> : text \in JudgeTexts}

\* variant: the ERROR test of lines 131-132 left out
UnitResultKeepError(c, e) ==
    IF e.raised THEN None ELSE Some(ResultDict(c, e.value))

\* lines 113-139: the unit's return value, e being what extract_evaluation
\* returned or raised
UnitResult(c, e) ==
    IF e.raised THEN None
    ELSE IF e.value = "ERROR" THEN None
    ELSE Some(ResultDict(c, e.value))

\* the unit returns r: its locals are gone, the slot is released and
\* as_completed queues the unit
Finish(c, text, r) ==
    /\ pc' = [pc EXCEPT ![c] = "done"]
    /\ model_response' = [model_response EXCEPT ![c] = None]
    /\ received_answer' = [received_answer EXCEPT ![c] = None]
    /\ received_evaluation' = [received_evaluation EXCEPT ![c] = text]
    /\ result' = [result EXCEPT ![c] = r]
    /\ sem' = Release(sem)
    /\ doneq' = Append(doneq, c)
    /\ UNCHANGED <<ledger, file_exists, fbuf, run, mainpc, existing_results, tasks,
                   successful_results, completed_count, fi, appends, summary,
                   parsevars>>

\* The event loop runs one coroutine at a time: units take their steps only
\* while main() is suspended in the completion loop, and main() runs from one
\* await to the next (through a flush, record by record) without a unit stepping.
UnitAcquire(c) ==
    /\ mainpc = "await"
    /\ pc[c] = "wait"
    /\ CanAcquire(sem)
    /\ sem' = Acquire(sem)
    /\ pc' = [pc EXCEPT ![c] = "answer"]
    /\ UNCHANGED <<ledger, file_exists, fbuf, run, mainpc, existing_results, tasks,
                   model_response, received_answer, received_evaluation, result,
                   doneq, successful_results, completed_count, fi, appends, summary,
                   parsevars>>

\* the answering call returns; the answer is extracted and the judge is called
AnswerReturn(c) ==
    /\ mainpc = "await"
    /\ pc[c] = "answer"
    /\ \E call \in AnswerCalls :
           /\ model_response' = [model_response EXCEPT ![c] = Some(call[1])]
           /\ received_answer' = [received_answer EXCEPT ![c] = Some(call[2])]
    /\ pc' = [pc EXCEPT ![c] = "judge"]
    /\ UNCHANGED <<ledger, file_exists, fbuf, run, mainpc, existing_results, tasks,
                   received_evaluation, result, sem, doneq, successful_results,
                   completed_count, fi, appends, summary, parsevars>>

AnswerRaise(c) ==
    /\ mainpc = "await"
    /\ pc[c] = "answer"
    /\ Finish(c, None, None)

JudgeReturn(c) ==
    /\ mainpc = "await"
    /\ pc[c] = "judge"
    /\ \E call \in JudgeCalls : Finish(c, Some(call[1]), UnitResult(c, call[2]))

JudgeRaise(c) ==
    /\ mainpc = "await"
    /\ pc[c] = "judge"
    /\ Finish(c, None, None)

\* ------------------------------------------------------------------ main
\* lines 165-173
LoadKeys == IF file_exists THEN Keys(ledger) ELSE {}

\* variant: nothing is skipped
PendingAll(existing) == Combos

\* variant: the membership test looks at question and model only
PendingIgnoringVariant(existing) ==
    {c \in Combos : \A k \in existing : ~(k[1] = c.question /\ k[2] = c.model)}

\* lines 180-189: the combinations whose key is not in existing_results
Pending(existing) == {c \in Combos : ComboKey(c) \notin existing}

\* variant: a flush at every completion from the BATCH-th on
ShouldFlushAtLeast(count) == count >= BATCH

\* variant: the flush comes one completion late
ShouldFlushLate(count) == count % (BATCH + 1) = 0

\* line 205
ShouldFlush(count) == count % BATCH = 0

\* variant: the periodic flush reads from the front while it pops from the back
FlushFront(buffer) == buffer[1]

\* line 218: what reversed(successful_results) yields next, each pass popping one
FlushTop(buffer) == buffer[Len(buffer)]

\* variant: the first record is removed instead of the last
PopFirst(buffer) == Tail(buffer)

\* line 220: successful_results.pop()
Pop(buffer) == SubSeq(buffer, 1, Len(buffer) - 1)

\* variant: the final flush writes nothing
FinalDoneAtOnce(buffer, i) == TRUE

\* line 225: the for loop over successful_results is through
FinalDone(buffer, i) == i > Len(buffer)

\* variant: the file is opened for writing, not for appending
CloseTruncated(file, buf) == buf

\* leaving "with OUTPUT.open("a") as f": the written lines go to the end of the file
Close(file, buf) == file \o buf

\* line 222
Summary(buffer, scheduled) == [completed |-> Len(buffer), total |-> Cardinality(scheduled)]

\* main() from its start to the first await of the completion loop, or to the
\* exception of json.loads at line 168
Main ==
    /\ mainpc \in {"init", "exit", "raised", "killed"}
    /\ run < MaxRuns
    /\ run' = run + 1
    /\ model_response' = [c \in Combos |-> None]
    /\ received_answer' = [c \in Combos |-> None]
    /\ received_evaluation' = [c \in Combos |-> None]
    /\ result' = [c \in Combos |-> None]
    /\ sem' = CONCURRENCY_LIMIT
    /\ doneq' = <<>>
    /\ successful_results' = <<>>
    /\ completed_count' = 0
    /\ fi' = 1
    /\ IF file_exists /\ LoadRaises(ledger)
       THEN /\ mainpc' = "raised"
            /\ existing_results' = {}
            /\ tasks' = {}
            /\ appends' = 0
            /\ summary' = None
            /\ UNCHANGED file_exists
       ELSE /\ existing_results' = LoadKeys
            /\ file_exists' = TRUE
            /\ tasks' = Pending(existing_results')
            /\ mainpc' = IF tasks' = {} THEN "final" ELSE "await"
            /\ appends' = IF tasks' = {} THEN 1 ELSE 0
            /\ summary' = IF tasks' = {} THEN Some(Summary(<<>>, tasks')) ELSE None
    /\ pc' = [c \in Combos |-> IF c \in tasks' THEN "wait" ELSE "idle"]
    /\ UNCHANGED <<ledger, fbuf, parsevars>>

\* one pass of the completion loop up to the flush: lines 198-205
Complete ==
    /\ mainpc = "await"
    /\ doneq # <<>>
    /\ LET c == Head(doneq)
           count == completed_count + 1
       IN  /\ doneq' = Tail(doneq)
           /\ pc' = [pc EXCEPT ![c] = "consumed"]
           /\ completed_count' = count
           /\ successful_results' =
                  IF result[c] # None THEN Append(successful_results, result[c][1])
                  ELSE successful_results
           /\ mainpc' = IF ShouldFlush(count) THEN "flush"
                        ELSE IF count = Cardinality(tasks) THEN "final"
                        ELSE "await"
           /\ appends' = IF mainpc' = "await" THEN appends ELSE appends + 1
           /\ summary' = IF mainpc' = "final"
                         THEN Some(Summary(successful_results', tasks)) ELSE summary
    /\ UNCHANGED <<ledger, file_exists, fbuf, run, existing_results, tasks,
                   model_response, received_answer, received_evaluation, result,
                   sem, fi, parsevars>>

\* lines 218-220: the last buffered record is written and popped
FlushWrite ==
    /\ mainpc = "flush"
    /\ successful_results # <<>>
    /\ fbuf' = Append(fbuf, dumps(FlushTop(successful_results)))
    /\ successful_results' = Pop(successful_results)
    /\ UNCHANGED <<ledger, file_exists, run, mainpc, existing_results, tasks, pc,
                   model_response, received_answer, received_evaluation, result,
                   sem, doneq, completed_count, fi, appends, summary, parsevars>>

\* the periodic flush is over and the file is closed: back to the loop, or past
\* it after the last unit
FlushClose ==
    /\ mainpc = "flush"
    /\ successful_results = <<>>
    /\ ledger' = Close(ledger, fbuf)
    /\ fbuf' = <<>>
    /\ mainpc' = IF completed_count = Cardinality(tasks) THEN "final" ELSE "await"
    /\ appends' = IF mainpc' = "final" THEN appends + 1 ELSE appends
    /\ summary' = IF mainpc' = "final"
                  THEN Some(Summary(successful_results, tasks)) ELSE summary
    /\ UNCHANGED <<file_exists, run, existing_results, tasks, pc, model_response,
                   received_answer, received_evaluation, result, sem, doneq,
                   successful_results, completed_count, fi, parsevars>>

\* lines 224-226: the buffer is written front to back and kept
FinalWrite ==
    /\ mainpc = "final"
    /\ ~FinalDone(successful_results, fi)
    /\ fbuf' = Append(fbuf, dumps(successful_results[fi]))
    /\ fi' = fi + 1
    /\ UNCHANGED <<ledger, file_exists, run, mainpc, existing_results, tasks, pc,
                   model_response, received_answer, received_evaluation, result,
                   sem, doneq, successful_results, completed_count, appends,
                   summary, parsevars>>

FinalClose ==
    /\ mainpc = "final"
    /\ FinalDone(successful_results, fi)
    /\ ledger' = Close(ledger, fbuf)
    /\ fbuf' = <<>>
    /\ mainpc' = "exit"
    /\ UNCHANGED <<file_exists, run, existing_results, tasks, pc, model_response,
                   received_answer, received_evaluation, result, sem, doneq,
                   successful_results, completed_count, fi, appends, summary,
                   parsevars>>

\* What the file holds after the process was stopped with lines still in the
\* file object opened at line 217 or 224: the file object passes the written
\* text on in blocks, and a block reaches the file up to the place where the
\* process stopped, so some of the written lines have arrived, in order and
\* whole, and possibly the beginning of the next one.
AfterStop(file, buf) ==
    {file \o SubSeq(buf, 1, k) : k \in 0..Len(buf)}
        \cup UNION {{Append(file \o SubSeq(buf, 1, k - 1), t) : t \in Torn(buf[k])} :
                        k \in 1..Len(buf)}

\* the process is stopped from outside while main() runs; its memory is gone
Interrupt ==
    /\ mainpc \in {"await", "flush", "final"}
    /\ ledger' \in AfterStop(ledger, fbuf)
    /\ fbuf' = <<>>
    /\ mainpc' = "killed"
    /\ existing_results' = {}
    /\ tasks' = {}
    /\ pc' = [c \in Combos |-> "idle"]
    /\ model_response' = [c \in Combos |-> None]
    /\ received_answer' = [c \in Combos |-> None]
    /\ received_evaluation' = [c \in Combos |-> None]
    /\ result' = [c \in Combos |-> None]
    /\ sem' = CONCURRENCY_LIMIT
    /\ doneq' = <<>>
    /\ successful_results' = <<>>
    /\ completed_count' = 0
    /\ fi' = 1
    /\ appends' = 0
    /\ summary' = None
    /\ UNCHANGED <<file_exists, run, parsevars>>

SchedInit ==
    /\ ledger = <<>>
    /\ file_exists = FALSE
    /\ fbuf = <<>>
    /\ run = 0
    /\ mainpc = "init"
    /\ existing_results = {}
    /\ tasks = {}
    /\ pc = [c \in Combos |-> "idle"]
    /\ model_response = [c \in Combos |-> None]
    /\ received_answer = [c \in Combos |-> None]
    /\ received_evaluation = [c \in Combos |-> None]
    /\ result = [c \in Combos |-> None]
    /\ sem = CONCURRENCY_LIMIT
    /\ doneq = <<>>
    /\ successful_results = <<>>
    /\ completed_count = 0
    /\ fi = 1
    /\ appends = 0
    /\ summary = None

Init ==
    /\ SchedInit
    /\ response = <<>>
    /\ parsed = None

UnitStep ==
    \E c \in Combos :
        \/ UnitAcquire(c)
        \/ AnswerReturn(c)
        \/ AnswerRaise(c)
        \/ JudgeReturn(c)
        \/ JudgeRaise(c)

MainStep == Complete \/ FlushWrite \/ FlushClose \/ FinalWrite \/ FinalClose

Next == Main \/ UnitStep \/ MainStep

Spec == Init /\ [][Next]_vars

\* every remote call returns or raises, and the event loop runs what is ready
FairSpec == Spec /\ WF_vars(UnitStep \/ MainStep)

\* runs that can be stopped from outside at any point and started again
NextInterrupt == Next \/ Interrupt

SpecInterrupt == Init /\ [][NextInterrupt]_vars

\* ------------------------------------------------------------------ parser check
InitParse ==
    /\ SchedInit
    /\ response \in Texts
    /\ parsed = None

ParseEvaluation ==
    /\ parsed = None
    /\ parsed' = Some(extract_evaluation(response))
    /\ UNCHANGED <<schedvars, response>>

NextParse == ParseEvaluation

SpecParse == InitParse /\ [][NextParse]_vars

InitAnswer ==
    /\ SchedInit
    /\ response \in AnswerInputs
    /\ parsed = None

ParseAnswer ==
    /\ parsed = None
    /\ parsed' = Some(extract_answer(response))
    /\ UNCHANGED <<schedvars, response>>

NextAnswer == ParseAnswer

SpecAnswer == InitAnswer /\ [][NextAnswer]_vars

\* ------------------------------------------------------------------ claims
Holding == {c \in Combos : pc[c] \in {"answer", "judge"}}
Finished == {c \in Combos : pc[c] \in {"done", "consumed"}}
Failed == {c \in Finished : result[c] = None}
Succeeded == {c \in Finished : result[c] # None}
AllKeys == {ComboKey(c) : c \in Combos}
\* how many whole lines of the file carry the key k
Count(file, k) ==
    Cardinality({i \in 1..Len(file) : IsJson(file[i]) /\ RecordKey(loads(file[i])) = k})
Verdicts == {"CORRECT", "INCORRECT", "DOUBT"}
BufferKeys(buffer) == {RecordKey(buffer[i]) : i \in 1..Len(buffer)}

\* C1: in every reachable state at most CONCURRENCY_LIMIT units are inside the
\* semaphore-guarded section.
C1_ConcurrencyBound == Cardinality(Holding) <= CONCURRENCY_LIMIT

\* the cap is reached while a unit waits and after a failed unit gave its slot back
C1_Witness ==
    /\ Cardinality(Holding) = CONCURRENCY_LIMIT
    /\ \E c \in Combos : pc[c] = "wait"
    /\ Failed # {}

\* C2: after a run that ends normally and in which no unit failed, every
\* combination's key is in the ledger exactly once.
C2_Completeness ==
    (mainpc = "exit" /\ Failed = {}) => \A c \in Combos : Count(ledger, ComboKey(c)) = 1

\* a second run that started from a partly filled ledger and completed it, with a
\* periodic flush and a final flush
C2_Witness ==
    /\ mainpc = "exit"
    /\ Failed = {}
    /\ existing_results # {}
    /\ Cardinality(tasks) > BATCH

\* C3: a run that starts with every combination recorded has nothing pending,
\* schedules no unit and leaves each key in the ledger exactly once.
C3_Idempotence ==
    (mainpc # "init" /\ AllKeys \subseteq existing_results) =>
        /\ tasks = {}
        /\ \A c \in Combos : pc[c] = "idle"
        /\ Keys(ledger) = existing_results
        /\ \A k \in existing_results : Count(ledger, k) = 1

C3_Witness == mainpc = "exit" /\ run = 2 /\ AllKeys \subseteq existing_results

\* C4: every record in the ledger, in the buffer or returned by a unit has a
\* verdict other than ERROR; a unit whose judge said ERROR returns nothing.
C4_NoErrorRecord ==
    /\ \A i \in 1..Len(ledger) : loads(ledger[i]).evaluation \in Verdicts
    /\ \A i \in 1..Len(successful_results) : successful_results[i].evaluation \in Verdicts
    /\ \A c \in Succeeded : result[c][1].evaluation \in Verdicts
    /\ \A c \in Finished :
           (received_evaluation[c] # None
               /\ extract_evaluation(received_evaluation[c][1]) = Return("ERROR"))
           => result[c] = None

\* a run is over, one unit's judge said ERROR, another unit's record is in the ledger
C4_Witness ==
    /\ mainpc = "exit"
    /\ ledger # <<>>
    /\ \E c \in Finished :
           /\ received_evaluation[c] # None
           /\ extract_evaluation(received_evaluation[c][1]) = Return("ERROR")
           /\ pc[c] = "consumed"

\* C5: a unit that failed gets no record in the ledger or the buffer during its
\* run, is not started again in that run, and is pending again in the next run.
C5_FailedStaysPending ==
    [][\A c \in Failed :
          /\ ComboKey(c) \notin Keys(ledger')
          /\ ComboKey(c) \notin BufferKeys(successful_results')
          /\ run' = run => (c \in Failed' /\ tasks' = tasks)
          /\ run' # run => c \in tasks']_vars

\* a run is over in which one unit's judge used a word outside the enumeration,
\* another unit's call raised, and a third unit was recorded
C5_Witness ==
    /\ mainpc = "exit"
    /\ Succeeded # {}
    /\ \E c \in Failed :
           /\ received_evaluation[c] # None
           /\ extract_evaluation(received_evaluation[c][1]) = Raise
           /\ ComboKey(c) \notin Keys(ledger)
    /\ \E c \in Failed : received_evaluation[c] = None

\* C6: whichever units fail, every pending unit gets a slot and is counted by the
\* completion loop, and the run ends normally with all units counted and all
\* slots free.
C6_Termination ==
    (mainpc = "await") ~>
        (/\ mainpc = "exit"
         /\ \A c \in tasks : pc[c] = "consumed"
         /\ completed_count = Cardinality(tasks)
         /\ sem = CONCURRENCY_LIMIT)

\* a run ended although as many units failed as there are slots
C6_Witness ==
    /\ mainpc = "exit"
    /\ Cardinality(Failed) >= CONCURRENCY_LIMIT
    /\ Succeeded # {}
    /\ completed_count = Cardinality(tasks)

Lines(text) == split(strip(text))
MatchingLines(text) ==
    {i \in 1..Len(Lines(text)) : category_match(strip(Lines(text)[i])).matched}
GroupOfLine(text, i) == category_match(strip(Lines(text)[i])).group

\* C7: when two or more lines of the text match the category pattern,
\* extract_evaluation resolves the category from the last of them.
C7_LastMatchWins ==
    (parsed # None /\ Cardinality(MatchingLines(response)) >= 2) =>
        parsed[1] = check_category(GroupOfLine(response, Max(MatchingLines(response))))

\* C8: extract_evaluation returns one of the four categories or raises; a text
\* without a matching line raises.
C8_CategoryClosure ==
    parsed # None =>
        /\ parsed[1].raised \/ parsed[1].value \in {"CORRECT", "INCORRECT", "DOUBT", "ERROR"}
        /\ MatchingLines(response) = {} => parsed[1] = Raise

\* a text with words but no matching line was parsed, and the parser raised
C8_Witness ==
    /\ parsed = Some(Raise)
    /\ MatchingLines(response) = {}
    /\ \E i \in 1..Len(response) : response[i] \in Words

CeilDiv(m, n) == (m + n - 1) \div n

\* C9 as stated: a run with M successful units makes ceil(M / BATCH) appends.
C9_AppendsPerSuccess ==
    mainpc = "exit" => appends = CeilDiv(Cardinality(Succeeded), BATCH)

\* C9: a run in which T units completed, successful or failed, makes
\* T \div BATCH periodic appends and the final one.
C9_AppendsPerCompletion ==
    mainpc = "exit" => appends = (completed_count \div BATCH) + 1

\* a run with failures ended after a periodic flush and a final flush
C9_Witness ==
    /\ mainpc = "exit"
    /\ completed_count > BATCH
    /\ Failed # {}
    /\ Succeeded # {}

\* finished successfully, record not in the ledger
Unrecorded == {c \in Succeeded : ComboKey(c) \notin Keys(ledger)}

\* C10 as stated: at most BATCH - 1 units have finished successfully without
\* their record being in the ledger.
C10_LossBelowBatch == Cardinality(Unrecorded) <= BATCH - 1

\* C10: of the results the completion loop has received, at most BATCH - 1 are
\* missing from the ledger while the loop waits for the next completion, and at
\* most BATCH at any point.
C10_ReceivedLoss ==
    LET lost == {c \in Unrecorded : pc[c] = "consumed"}
    IN  /\ Cardinality(lost) <= BATCH
        /\ mainpc = "await" => Cardinality(lost) <= BATCH - 1

\* the loop waits with BATCH - 1 received results not yet in the ledger, after
\* a periodic flush
C10_Witness ==
    /\ mainpc = "await"
    /\ completed_count > BATCH
    /\ Cardinality({c \in Unrecorded : pc[c] = "consumed"}) = BATCH - 1


\* ------------------------------------------------------------------ interruption
\* C11 as stated: after a run was stopped at any point, the run started next
\* loads the ledger without an exception, skips exactly the combinations whose
\* key it loaded and schedules every other one, and, ending normally without a
\* failed unit, leaves every combination's key in the ledger exactly once.
C11_InterruptRestart ==
    /\ mainpc # "raised"
    /\ mainpc \in {"await", "flush", "final", "exit"} =>
           /\ \A c \in Combos : c \in tasks <=> ComboKey(c) \notin existing_results
           /\ existing_results \subseteq Keys(ledger)
           /\ Keys(ledger) \ existing_results \subseteq {ComboKey(c) : c \in Succeeded}
    /\ (mainpc = "exit" /\ Failed = {}) =>
           \A c \in Combos : Count(ledger, ComboKey(c)) = 1

\* ------------------------------------------------------------------ ledger
\* C12: the keys loaded at startup, united with the keys of the records the run
\* appended, are exactly what a fresh load of the ledger yields after the run,
\* from a missing, an empty and a filled ledger alike.
C12_RoundTrip ==
    mainpc = "exit" =>
        LoadKeys = existing_results \cup {RecordKey(result[c][1]) : c \in Succeeded}

\* a second run started from a filled ledger and appended a record of the
\* suggest_empty variant and one of the base variant
C12_Witness ==
    /\ mainpc = "exit"
    /\ run = 2
    /\ existing_results # {}
    /\ \E c, d \in Succeeded : c.system_type = "suggest_empty" /\ d.system_type = "base"

IsPrefix(s, t) == Len(s) <= Len(t) /\ SubSeq(t, 1, Len(s)) = s

\* C13: every step of a run leaves the lines the ledger already has in place:
\* the ledger before the step is a prefix of the ledger after it, and the file
\* is never removed.
C13_AppendOnly == [][IsPrefix(ledger, ledger') /\ (file_exists => file_exists')]_vars

\* a second run has appended to what the first run left
C13_Witness ==
    /\ mainpc = "exit"
    /\ run = 2
    /\ existing_results # {}
    /\ Len(ledger) > Cardinality(existing_results)
    /\ Failed # {}

\* the units of this run whose key is in the ledger
RecordedInRun == {c \in tasks : ComboKey(c) \in Keys(ledger)}

\* C14 as stated: the summary of a run that ended normally reports the number
\* of units recorded in the ledger during the run, out of the number of units
\* attempted.
C14_SummaryCounts ==
    mainpc = "exit" =>
        summary = Some([completed |-> Cardinality(RecordedInRun),
                        total |-> Cardinality(tasks)])

\* ------------------------------------------------------------------ answer extraction
\* the lines of the text that carry the keyword, counted as extract_answer
\* splits them
AnswerLines(text) ==
    {i \in 1..Len(Lines(text)) : answer_match(strip(Lines(text)[i])).matched}

\* C15 as stated: a text without a matching line comes back trimmed of leading
\* and trailing whitespace and otherwise unchanged.
C15_FallbackTrimmed ==
    (parsed # None /\ AnswerLines(response) = {}) => parsed[1] = strip(response)

\* C15: a text without a matching line comes back as it was given, its leading
\* and trailing whitespace included.
C15_FallbackUnchanged ==
    (parsed # None /\ AnswerLines(response) = {}) => parsed[1] = response

\* a text with whitespace around its content and no matching line was parsed
C15_Witness ==
    /\ parsed # None
    /\ AnswerLines(response) = {}
    /\ strip(response) # <<>>
    /\ Head(response) = SP
    /\ response[Len(response)] = NL

\* the last matching line, stripped, when it has the form  answer: {CONTENT}
BracedLine(text) == strip(Lines(text)[Max(AnswerLines(text))])
BraceAt(line) == SkipBlanks(line, Max({n \in 1..Len(line) : line[n] = KWA}) + 1)
IsBraced(line) ==
    /\ BraceAt(line) < Len(line)
    /\ line[BraceAt(line)] = "{"
    /\ line[Len(line)] = "}"

\* C19 as stated: when the last matching line has the form answer: {CONTENT},
\* the result is CONTENT trimmed, without the opening and the closing brace.
C19_BracesStripped ==
    (parsed # None /\ AnswerLines(response) # {} /\ IsBraced(BracedLine(response))) =>
        parsed[1] = strip(SubSeq(BracedLine(response), BraceAt(BracedLine(response)) + 1,
                                 Len(BracedLine(response)) - 1))

\* ------------------------------------------------------------------ flushes
\* the lines this flush has written, followed by the lines it has yet to write
FlushImage == fbuf \o [i \in 1..Len(successful_results) |->
                          dumps(successful_results[Len(successful_results) + 1 - i])]

\* C16: a periodic flush starts at a multiple of BATCH completions with nothing
\* written; each of its steps moves one buffered record to the written lines;
\* when it ends the buffer is empty and the ledger has grown by one line for
\* each record that was buffered, none left out and none twice.
C16_PeriodicFlush ==
    [][/\ (mainpc # "flush" /\ mainpc' = "flush") =>
              /\ completed_count' % BATCH = 0
              /\ fbuf' = <<>>
              /\ Len(successful_results') <= BATCH
       /\ (mainpc = "flush" /\ mainpc' = "flush") => FlushImage' = FlushImage
       /\ (mainpc = "flush" /\ mainpc' # "flush") =>
              /\ successful_results' = <<>>
              /\ ledger' = ledger \o FlushImage
              /\ \A c \in Succeeded : pc[c] = "consumed" => Count(ledger', ComboKey(c)) = 1]_vars

\* a periodic flush has written a full buffer of BATCH records
C16_Witness ==
    /\ mainpc = "flush"
    /\ Len(fbuf) = BATCH
    /\ successful_results = <<>>

\* C17: after a run that ended normally every unit that returned a result has
\* exactly one line in the ledger, whether it came before or after the last
\* periodic flush, and the ledger has no other new line.
C17_ResidualFlush ==
    mainpc = "exit" =>
        /\ \A c \in Succeeded : Count(ledger, ComboKey(c)) = 1
        /\ Len(ledger) = Cardinality(existing_results) + Cardinality(Succeeded)

\* a run ended in which a periodic flush wrote a record and the final flush
\* wrote one that came after it
C17_Witness ==
    /\ mainpc = "exit"
    /\ completed_count > BATCH
    /\ successful_results # <<>>
    /\ Cardinality(Succeeded) > Len(successful_results)

\* ------------------------------------------------------------------ unit order
\* C18: a unit's judging call is issued only from its answering call's return
\* and carries the answer extracted from that response; a unit whose answering
\* call fails ends without a judging call and without a judge's response; a
\* judge's response comes only to a unit whose judging call is out.
C18_AnswerBeforeJudge ==
    [][\A c \in Combos :
          /\ (pc'[c] = "judge" /\ pc[c] # "judge") =>
                 /\ pc[c] = "answer"
                 /\ model_response'[c] # None
                 /\ received_answer'[c] = Some(extract_answer(model_response'[c][1]))
          /\ (pc[c] = "answer" /\ pc'[c] # "answer") =>
                 \/ pc'[c] = "judge"
                 \/ /\ pc'[c] = "done"
                    /\ received_answer'[c] = None
                    /\ received_evaluation'[c] = None
                    /\ result'[c] = None
          /\ (received_answer'[c] # None) => pc'[c] = "judge"
          /\ (received_evaluation'[c] # None /\ received_evaluation[c] = None) =>
                 pc[c] = "judge"]_vars

\* a unit's judging call is out with an answer that extraction has changed,
\* while another unit's answering call is still out and a third unit has ended
\* without a judge's response
C18_Witness ==
    \E c, d, e \in Combos :
        /\ pc[c] = "judge"
        /\ received_answer[c] # None
        /\ received_answer[c] # model_response[c]
        /\ pc[d] = "consumed"
        /\ result[d] = None
        /\ received_evaluation[d] = None
        /\ pc[e] = "answer"

\* ------------------------------------------------------------------ keys
\* C20: different combinations have different keys, and a run leaves a
\* combination out of its tasks exactly when that combination's own key is in
\* the ledger it loads.
C20_KeyDistinct ==
    [][/\ \A c, d \in Combos : ComboKey(c) = ComboKey(d) => c = d
       /\ (run' # run /\ mainpc' # "raised") =>
              \A c \in Combos : c \notin tasks' <=> Count(ledger, ComboKey(c)) > 0]_vars

\* a run found one prompt variant of a question in the ledger and scheduled
\* the other
C20_Witness ==
    /\ mainpc = "await"
    /\ run = 2
    /\ \E c \in tasks : \E d \in Combos \ tasks :
           c.question = d.question /\ c.model = d.model

====
